---- MODULE Spec2Model ----
(***************************************************************************)
(* Model of the two batch scripts of amazon_logistics_dashboard:           *)
(*   scripts/processed_enhanced_last_mile_data.py  (Pipeline B, the route  *)
(*     aggregator: load_json_file, process_single_route_data, __main__)    *)
(*   scripts/data_generation.py  (Pipeline A, the synthetic order          *)
(*     generator: load_real_zip_codes, get_delivery_time, the order loop)  *)
(* Four specifications share one set of variables:                         *)
(*   SpecAgg  process_single_route_data applied to bounded inputs          *)
(*   SpecB    a whole run of Pipeline B (FairSpecB adds its scheduling)    *)
(*   SpecZip  load_real_zip_codes applied to bounded reference files       *)
(*   SpecA    the order generation loop of Pipeline A                      *)
(***************************************************************************)
EXTENDS Integers, Sequences, FiniteSets, TLC

VARIABLES
    pc,                        \* position of the running script
    agg_in, agg_out,           \* process_single_route_data: arguments, result
    disk,                      \* the nine JSON documents on disk
    docs,                      \* what load_json_file returned for each
    all_route_ids_to_process,  \* the set built at lines 156-159
    todo,                      \* route ids the for loop has not visited yet
    handed,                    \* arguments of each process_single_route_data call
    all_processed_routes,      \* list of aggregates
    processed_count,
    csv,                       \* rows of processed_enhanced_meta_routes.csv
    csv_writes,                \* number of to_csv calls
    zip_file, zip_result,      \* load_real_zip_codes: file, returned list
    REAL_ZIP_CODES, use_faker_postcode,
    i, orders_data,            \* order loop index and collected rows
    last                       \* locals of the latest loop iteration

varsAgg == <<agg_in, agg_out>>
varsB == <<disk, docs, all_route_ids_to_process, todo, handed,
           all_processed_routes, processed_count, csv, csv_writes>>
varsZip == <<zip_file, zip_result>>
varsA == <<REAL_ZIP_CODES, use_faker_postcode, i, orders_data, last>>
vars == <<pc, varsAgg, varsB, varsZip, varsA>>

(***************************************************************************)
(* Bounds of the model.                                                    *)
(***************************************************************************)
MaxStops == 2      \* stops per route record
MaxPkgs == 2       \* packages per package sub-mapping
MaxEntries == 4    \* per-route records present in the nine JSON documents
MaxRows == 3       \* rows of the ZIP code reference file
MaxOrders == 1     \* orders generated, in place of NUM_ORDERS = 100000

(***************************************************************************)
(* Python / JSON values.  Every value carries its type, so that a mapping  *)
(* can hold values of different types under one key.                       *)
(***************************************************************************)
None == [t |-> "null"]
Num(n) == [t |-> "num", n |-> n]
Str(s) == [t |-> "str", s |-> s]
List(l) == [t |-> "list", l |-> l]
Dict(f) == [t |-> "dict", d |-> f]
EmptyFn == [k \in {} |-> None]
EmptyDict == Dict(EmptyFn)

\* isinstance(v, dict)
IsDict(v) == v.t = "dict"

\* bool(v): None, 0, "", [] and {} are false
Truthy(v) ==
    CASE v.t = "null" -> FALSE
      [] v.t = "num" -> v.n # 0
      [] v.t = "str" -> v.s # ""
      [] v.t = "list" -> v.l # <<>>
      [] v.t = "dict" -> DOMAIN v.d # {}

\* a or b
PyOr(a, b) == IF Truthy(a) THEN a ELSE b

\* k in d
Has(d, k) == k \in DOMAIN d.d

\* d.get(k, default)
GetOr(d, k, default) == IF k \in DOMAIN d.d THEN d.d[k] ELSE default

\* d.get(k)
Get(d, k) == GetOr(d, k, None)

\* d.keys()
Keys(d) == DOMAIN d.d

(***************************************************************************)
(* Exact quotients: n / d as the reduced fraction it denotes.              *)
(***************************************************************************)
Abs(n) == IF n < 0 THEN -n ELSE n

RECURSIVE Gcd(_, _)
Gcd(a, b) == IF b = 0 THEN a ELSE Gcd(b, a % b)

\* true division a / b, b > 0
Div(a, b) ==
    LET g == Gcd(Abs(a), b)
    IN  [num |-> a \div g, den |-> b \div g]

Zero == [num |-> 0, den |-> 1]

SECONDS_PER_HOUR == 3600

(***************************************************************************)
(* process_single_route_data                                               *)
(***************************************************************************)
\* the two accumulators of the stops loop, added (lines 80-88)
RECURSIVE SumStopSeconds(_, _)
SumStopSeconds(stops, ids) ==
    IF ids = {} THEN 0
    ELSE LET stop_id == CHOOSE s \in ids : TRUE
             stop_detail == stops.d[stop_id]
             here == IF IsDict(stop_detail)
                     THEN GetOr(stop_detail, "travel_time_to_next_stop_in_seconds", Num(0)).n
                          + GetOr(stop_detail, "planned_service_time_seconds", Num(0)).n
                     ELSE 0
         IN  here + SumStopSeconds(stops, ids \ {stop_id})

\* the floor at zero of line 89
NonNegativeHours_NoFloor(h) == h

NonNegativeHours(h) == IF h.num < 0 THEN Zero ELSE h

\* lines 77-89
RouteDurationHours(route_details) ==
    LET stops_data_from_route_json == GetOr(route_details, "stops", EmptyDict)
    IN  IF Truthy(stops_data_from_route_json) /\ IsDict(stops_data_from_route_json)
        THEN NonNegativeHours(
                 Div(SumStopSeconds(stops_data_from_route_json,
                                    Keys(stops_data_from_route_json)),
                     SECONDS_PER_HOUR))
        ELSE Zero

\* lines 92-94 without the fallback to "packages"
InnerPackagesDict_OnlyAD(package_details_for_route) ==
    GetOr(package_details_for_route, "AD", EmptyDict)

\* lines 92-94
InnerPackagesDict(package_details_for_route) ==
    LET ad == GetOr(package_details_for_route, "AD", EmptyDict)
    IN  IF ~Truthy(ad) /\ Has(package_details_for_route, "packages")
           /\ IsDict(package_details_for_route.d["packages"])
        THEN package_details_for_route.d["packages"]
        ELSE ad

\* lines 100-104, one package
PkgVolume(pkg) ==
    IF Has(pkg, "dimensions") /\ IsDict(Get(pkg, "dimensions"))
    THEN LET dims == pkg.d["dimensions"]
         IN  GetOr(dims, "depth_cm", Num(0)).n
             * GetOr(dims, "height_cm", Num(0)).n
             * GetOr(dims, "width_cm", Num(0)).n
    ELSE 0

\* lines 99-104
RECURSIVE SumVolume(_, _)
SumVolume(inner, ids) ==
    IF ids = {} THEN 0
    ELSE LET p == CHOOSE q \in ids : TRUE
         IN  PkgVolume(inner.d[p]) + SumVolume(inner, ids \ {p})

\* lines 48-121
process_single_route_data(route_id, route_details, package_details_for_route, actual_sequences_for_route) ==
    LET rd == route_details
        hasRoute == Truthy(rd)
        origin == IF hasRoute /\ Has(rd, "origin") /\ IsDict(Get(rd, "origin"))
                  THEN rd.d["origin"] ELSE EmptyDict
        inner == IF Truthy(package_details_for_route)
                 THEN InnerPackagesDict(package_details_for_route)
                 ELSE EmptyDict
    IN  [ route_id |-> route_id,
          city |-> IF hasRoute THEN GetOr(rd, "city", Str("Unknown")) ELSE Str("Unknown"),
          route_date |-> IF hasRoute
                         THEN PyOr(Get(rd, "date_YYYY_MM_DD"), Get(rd, "date"))
                         ELSE None,
          station_code |-> IF hasRoute THEN Get(rd, "station_code") ELSE None,
          route_score |-> IF hasRoute THEN Get(rd, "route_score") ELSE None,
          origin_latitude |-> Get(origin, "latitude"),
          origin_longitude |-> Get(origin, "longitude"),
          vehicle_capacity_cm3 |-> IF hasRoute
                                   THEN PyOr(Get(rd, "executor_capacity_cm3"),
                                             Get(rd, "vehicleCapacity"))
                                   ELSE None,
          num_deliveries |-> Cardinality(Keys(inner)),
          total_calculated_volume_cm3 |-> SumVolume(inner, Keys(inner)),
          actual_route_duration_hours |-> IF hasRoute THEN RouteDurationHours(rd) ELSE Zero,
          actual_route_distance_km |-> 0 ]

(***************************************************************************)
(* Inputs of process_single_route_data: route-details and package-details  *)
(* records of the shapes the function tests for.                           *)
(***************************************************************************)
StopNames == <<"s1", "s2", "s3", "s4">>
StopIds == {StopNames[n] : n \in 1..MaxStops}

PkgNames == <<"p1", "p2", "p3", "p4">>
PkgIds == {PkgNames[n] : n \in 1..MaxPkgs}

StopPool ==
    { Str("depot"),
      EmptyDict,
      Dict([travel_time_to_next_stop_in_seconds |-> Num(3600),
            planned_service_time_seconds |-> Num(1800)]),
      Dict([travel_time_to_next_stop_in_seconds |-> Num(-7200)]),
      Dict([planned_service_time_seconds |-> Num(1800)]) }

\* every mapping from some of the ids to values of the pool
Mappings(ids, pool) == {Dict(f) : f \in UNION {[S -> pool] : S \in SUBSET ids}}

StopsValues == Mappings(StopIds, StopPool) \cup {List(<<Str("s1")>>)}

RouteHeaders ==
    { EmptyFn,
      [date_YYYY_MM_DD |-> Str("2018-07-20"), city |-> Str("Austin"),
       station_code |-> Str("DAU1"), route_score |-> Str("High"),
       executor_capacity_cm3 |-> Num(4247527),
       origin |-> Dict([latitude |-> Num(30), longitude |-> Num(-97)])],
      [date |-> Str("not-a-date"), vehicleCapacity |-> Num(3313071),
       origin |-> Str("DAU1")] }

RoutePool ==
    {None} \cup {Dict(h) : h \in RouteHeaders}
           \cup {Dict(h @@ [stops |-> v]) : h \in RouteHeaders, v \in StopsValues}

Dims(d, h, w) == Dict([depth_cm |-> Num(d), height_cm |-> Num(h), width_cm |-> Num(w)])

PkgPool ==
    { EmptyDict,
      Dict([dimensions |-> Str("n/a")]),
      Dict([dimensions |-> Dims(2, 3, 4)]),
      Dict([dimensions |-> Dims(1, 1, 1)]),
      Dict([dimensions |-> Dict([depth_cm |-> Num(2), height_cm |-> Num(3)])]) }

PkgMappings == Mappings(PkgIds, PkgPool)

OtherPackages == Dict([p9 |-> Dict([dimensions |-> Dims(5, 5, 5)])])

PackagePool ==
    {None, EmptyDict, Dict([packages |-> List(<<Str("p1")>>)]),
     Dict([time_window |-> Str("08:00")])}
      \cup {Dict([AD |-> m]) : m \in PkgMappings}
      \cup {Dict([packages |-> m]) : m \in PkgMappings}
      \cup {Dict([AD |-> EmptyDict, packages |-> m]) : m \in PkgMappings}
      \cup {Dict([AD |-> m, packages |-> OtherPackages]) : m \in PkgMappings}

SequencePool == {None, Dict([actual |-> Dict([s1 |-> Num(0)])])}

NoCall == [route_id |-> "", route_details |-> None, package_details |-> None,
           actual_sequences |-> None]

(***************************************************************************)
(* Idle values of the variables a specification does not use.              *)
(***************************************************************************)
IdleAgg == agg_in = NoCall /\ agg_out = None
IdleB == /\ disk = EmptyFn /\ docs = EmptyFn
         /\ all_route_ids_to_process = {} /\ todo = {}
         /\ handed = EmptyFn /\ all_processed_routes = <<>>
         /\ processed_count = 0 /\ csv = <<>> /\ csv_writes = 0
IdleZip == zip_file = None /\ zip_result = <<>>
IdleA == /\ REAL_ZIP_CODES = <<>> /\ use_faker_postcode = FALSE
         /\ i = 0 /\ orders_data = <<>> /\ last = None

(***************************************************************************)
(* SpecAgg: one call of process_single_route_data.                         *)
(***************************************************************************)
InitAgg == pc = "agg_start" /\ IdleAgg /\ IdleB /\ IdleZip /\ IdleA

CallAggregator ==
    /\ pc = "agg_start"
    /\ \E rd \in RoutePool, pd \in PackagePool, sq \in SequencePool :
          /\ agg_in' = [route_id |-> "r1", route_details |-> rd,
                        package_details |-> pd, actual_sequences |-> sq]
          /\ agg_out' = process_single_route_data("r1", rd, pd, sq)
    /\ pc' = "agg_done"
    /\ UNCHANGED <<varsB, varsZip, varsA>>

NextAgg == CallAggregator

SpecAgg == InitAgg /\ [][NextAgg]_vars

(***************************************************************************)
(* Pipeline B: the nine documents.  A file is named by the kind of record  *)
(* it holds and the location it is read from:                              *)
(*   <<"route", "build">> is route_data_build, <<"package", "apply">> is   *)
(*   package_data_apply, <<"sequence", "eval">> is actual_sequences_eval.  *)
(***************************************************************************)
Kinds == {"route", "package", "sequence"}
Locs == {"build", "apply", "eval"}
Files == Kinds \X Locs
RouteIds == {"r1", "r2"}

\* the locations whose documents may mention a route id
HomeLocs(r) == IF r = "r1" THEN Locs ELSE {"build"}
Slots == {x \in Files \X RouteIds : x[1][2] \in HomeLocs(x[2])}

\* a non-empty record of each kind; which location it came from shows in it
FullRecord(kind, loc) ==
    LET k == CASE loc = "build" -> 1 [] loc = "apply" -> 2 [] loc = "eval" -> 3
    IN  CASE kind = "route" ->
               Dict([date_YYYY_MM_DD |-> Str(IF loc = "eval" THEN "unknown" ELSE "2018-07-20"),
                     station_code |-> Str(loc),
                     stops |-> Dict([s1 |-> Dict([travel_time_to_next_stop_in_seconds |-> Num(3600 * k),
                                                  planned_service_time_seconds |-> Num(1800)])])])
          [] kind = "package" ->
               Dict([AD |-> Dict([p1 |-> Dict([dimensions |-> Dims(k, 3, 4)])])])
          [] kind = "sequence" ->
               Dict([actual |-> Dict([s1 |-> Num(k)])])

\* what a file without any record is: absent, not JSON, not readable, or a
\* document whose content is empty
AbsentModes ==
    { [st |-> "missing", content |-> None],
      [st |-> "malformed", content |-> None],
      [st |-> "unreadable", content |-> None],
      [st |-> "ok", content |-> None],
      [st |-> "ok", content |-> List(<<>>)] }

\* the file holding the records e (a function from some slots to "empty" or
\* "full"), every file without a record being as `absent` says
DiskOf(e, absent) ==
    [f \in Files |->
        LET rs == {r \in RouteIds : <<f, r>> \in DOMAIN e}
        IN  IF rs = {} THEN absent
            ELSE [st |-> "ok",
                  content |-> Dict([r \in rs |->
                                      IF e[<<f, r>>] = "empty" THEN EmptyDict
                                      ELSE FullRecord(f[1], f[2])])]]

\* the sets of records the documents may hold: at most MaxEntries records
EntrySets == {T \in SUBSET Slots : Cardinality(T) <= MaxEntries}

MissingOnly == {[st |-> "missing", content |-> None]}

(***************************************************************************)
(* load_json_file                                                          *)
(***************************************************************************)
Return(v) == [raised |-> FALSE, value |-> v]
Raise == [raised |-> TRUE, value |-> None]

\* lines 11-26 without the test of line 18
load_json_file_NoEmptyTest(file) ==
    IF file.st = "ok" THEN Return(file.content) ELSE Return(EmptyDict)

\* lines 11-26
load_json_file(file) ==
    IF file.st = "missing" THEN Return(EmptyDict)                 \* line 14
    ELSE IF file.st = "malformed" THEN Return(EmptyDict)          \* line 23
    ELSE IF file.st = "unreadable" THEN Return(EmptyDict)         \* line 26
    ELSE IF ~Truthy(file.content) THEN Return(EmptyDict)          \* line 19
    ELSE Return(file.content)                                     \* line 20

(***************************************************************************)
(* Pipeline B: __main__                                                    *)
(***************************************************************************)
\* a.get(route_id) or b.get(route_id) or c.get(route_id), with the
\* locations whose document was looked into
MergedLookup_ApplyFirst(kind, route_id) ==
    LET a == Get(docs[<<kind, "apply">>], route_id)
        b == Get(docs[<<kind, "build">>], route_id)
    IN  IF Truthy(a) THEN [value |-> a, consulted |-> {"apply"}]
        ELSE IF Truthy(b) THEN [value |-> b, consulted |-> {"apply", "build"}]
        ELSE [value |-> Get(docs[<<kind, "eval">>], route_id), consulted |-> Locs]

\* lines 169-171
MergedLookup(kind, route_id) ==
    LET b == Get(docs[<<kind, "build">>], route_id)
        a == Get(docs[<<kind, "apply">>], route_id)
    IN  IF Truthy(b) THEN [value |-> b, consulted |-> {"build"}]
        ELSE IF Truthy(a) THEN [value |-> a, consulted |-> {"build", "apply"}]
        ELSE [value |-> Get(docs[<<kind, "eval">>], route_id), consulted |-> Locs]

\* line 182 as it was before actual_sequences was taken out of it
HasCoreData_WithSequences(route_details, package_details, actual_sequences) ==
    Truthy(route_details) /\ Truthy(package_details) /\ Truthy(actual_sequences)

\* line 182: all([route_details, package_details])
HasCoreData(route_details, package_details, actual_sequences) ==
    Truthy(route_details) /\ Truthy(package_details)

\* line 197 never taken
NoValidRoutes_Never(routes) == FALSE

\* line 197: not all_processed_routes
NoValidRoutes(routes) == routes = <<>>

\* lines 203-204: astype(str).str.strip(), then to_datetime(errors='coerce')
NaT == [t |-> "nat"]
ParseableDates == {"2018-07-20"}
ToDatetime(v) ==
    IF v.t = "str" /\ v.s \in ParseableDates THEN [t |-> "date", s |-> v.s] ELSE NaT

\* line 124, before anything is read
StartB(modes) ==
    /\ pc = "start"
    /\ \E T \in EntrySets : \E e \in [T -> {"empty", "full"}] : \E absent \in modes :
          disk = DiskOf(e, absent)
    /\ docs = EmptyFn
    /\ all_route_ids_to_process = {} /\ todo = {}
    /\ handed = EmptyFn /\ all_processed_routes = <<>>
    /\ processed_count = 0 /\ csv = <<>> /\ csv_writes = 0
    /\ IdleAgg /\ IdleZip /\ IdleA

InitB == StartB(AbsentModes)

\* lines 127-154
LoadAll ==
    /\ pc = "start"
    /\ LET got == [f \in Files |-> load_json_file(disk[f])]
       IN  /\ docs' = [f \in Files |-> got[f].value]
           /\ pc' = IF \E f \in Files : got[f].raised THEN "crashed" ELSE "collect"
    /\ UNCHANGED <<disk, all_route_ids_to_process, todo, handed,
                   all_processed_routes, processed_count, csv, csv_writes>>
    /\ UNCHANGED <<varsAgg, varsZip, varsA>>

\* lines 156-159
CollectedIds ==
    UNION {IF Truthy(docs[<<"route", l>>]) THEN Keys(docs[<<"route", l>>]) ELSE {} :
              l \in Locs}

\* lines 156-163, no route id: exit()
ExitNoRouteIds ==
    /\ pc = "collect"
    /\ CollectedIds = {}
    /\ all_route_ids_to_process' = {}
    /\ pc' = "exited"
    /\ UNCHANGED <<disk, docs, todo, handed, all_processed_routes,
                   processed_count, csv, csv_writes>>
    /\ UNCHANGED <<varsAgg, varsZip, varsA>>

\* lines 156-167
CollectRouteIds ==
    /\ pc = "collect"
    /\ CollectedIds # {}
    /\ all_route_ids_to_process' = CollectedIds
    /\ todo' = CollectedIds
    /\ processed_count' = 0
    /\ pc' = "loop"
    /\ UNCHANGED <<disk, docs, handed, all_processed_routes, csv, csv_writes>>
    /\ UNCHANGED <<varsAgg, varsZip, varsA>>

\* what one iteration looks up (lines 169-171)
Lookups(route_id) ==
    [route |-> MergedLookup("route", route_id),
     package |-> MergedLookup("package", route_id),
     sequence |-> MergedLookup("sequence", route_id)]

AfterIteration(route_id) ==
    /\ todo' = todo \ {route_id}
    /\ pc' = IF todo \ {route_id} = {} THEN "output" ELSE "loop"

\* lines 168-184: an iteration that ends at `continue`
SkipRoute ==
    /\ pc = "loop"
    /\ \E route_id \in todo :
          LET l == Lookups(route_id)
          IN  /\ ~HasCoreData(l.route.value, l.package.value, l.sequence.value)
              /\ handed' = (route_id :> (l @@ [called |-> FALSE])) @@ handed
              /\ AfterIteration(route_id)
    /\ UNCHANGED <<disk, docs, all_route_ids_to_process, all_processed_routes,
                   processed_count, csv, csv_writes>>
    /\ UNCHANGED <<varsAgg, varsZip, varsA>>

\* lines 168-194 with an aggregate that carries over from the row before it
ProcessRoute_Carrying ==
    /\ pc = "loop"
    /\ \E route_id \in todo :
          LET l == Lookups(route_id)
              before == IF all_processed_routes = <<>> THEN 0
                        ELSE all_processed_routes[Len(all_processed_routes)].num_deliveries
              processed_metrics ==
                  [process_single_route_data(route_id, l.route.value,
                                             l.package.value, l.sequence.value)
                      EXCEPT !.num_deliveries = @ + before]
          IN  /\ HasCoreData(l.route.value, l.package.value, l.sequence.value)
              /\ handed' = (route_id :> (l @@ [called |-> TRUE])) @@ handed
              /\ all_processed_routes' = Append(all_processed_routes, processed_metrics)
              /\ processed_count' = processed_count + 1
              /\ AfterIteration(route_id)
    /\ UNCHANGED <<disk, docs, all_route_ids_to_process, csv, csv_writes>>
    /\ UNCHANGED <<varsAgg, varsZip, varsA>>

\* lines 168-194: an iteration that calls process_single_route_data
ProcessRoute ==
    /\ pc = "loop"
    /\ \E route_id \in todo :
          LET l == Lookups(route_id)
              processed_metrics ==
                  process_single_route_data(route_id, l.route.value,
                                            l.package.value, l.sequence.value)
          IN  /\ HasCoreData(l.route.value, l.package.value, l.sequence.value)
              /\ handed' = (route_id :> (l @@ [called |-> TRUE])) @@ handed
              /\ all_processed_routes' = Append(all_processed_routes, processed_metrics)
              /\ processed_count' = processed_count + 1
              /\ AfterIteration(route_id)
    /\ UNCHANGED <<disk, docs, all_route_ids_to_process, csv, csv_writes>>
    /\ UNCHANGED <<varsAgg, varsZip, varsA>>

\* lines 197-199: exit()
ExitNoValidRoutes ==
    /\ pc = "output"
    /\ NoValidRoutes(all_processed_routes)
    /\ pc' = "exited"
    /\ UNCHANGED varsB
    /\ UNCHANGED <<varsAgg, varsZip, varsA>>

\* lines 201-218
WriteCsv ==
    /\ pc = "output"
    /\ ~NoValidRoutes(all_processed_routes)
    /\ csv' = [n \in 1..Len(all_processed_routes) |->
                  [all_processed_routes[n] EXCEPT !.route_date = ToDatetime(@)]]
    /\ csv_writes' = csv_writes + 1
    /\ pc' = "done"
    /\ UNCHANGED <<disk, docs, all_route_ids_to_process, todo, handed,
                   all_processed_routes, processed_count>>
    /\ UNCHANGED <<varsAgg, varsZip, varsA>>

NextB ==
    \/ LoadAll
    \/ ExitNoRouteIds
    \/ CollectRouteIds
    \/ SkipRoute
    \/ ProcessRoute
    \/ ExitNoValidRoutes
    \/ WriteCsv

SpecB == InitB /\ [][NextB]_vars

\* The script is one thread that runs on: a step that can be taken is taken.
\* Whether a file without records is missing, malformed, unreadable or empty
\* makes no difference after LoadAll, so the runs start from missing files.
InitFairB == StartB(MissingOnly)

FairSpecB == InitFairB /\ [][NextB]_vars /\ WF_vars(NextB)

(***************************************************************************)
(* Pipeline A: text.  A string is the sequence of its characters.          *)
(***************************************************************************)
DigitChars == <<"0", "1", "2", "3", "4", "5", "6", "7", "8", "9">>

\* str(n), n >= 0
RECURSIVE Decimal(_)
Decimal(n) ==
    IF n < 10 THEN <<DigitChars[n + 1]>>
    ELSE Append(Decimal(n \div 10), DigitChars[(n % 10) + 1])

\* str(n)
IntStr(n) == IF n < 0 THEN <<"-">> \o Decimal(-n) ELSE Decimal(n)

\* s.rjust(width, "0")
RECURSIVE PadLeft(_, _)
PadLeft(s, width) == IF Len(s) >= width THEN s ELSE PadLeft(<<"0">> \o s, width)

\* s.zfill(width) of Python: the zeros go after a leading sign
SignAwareZfill(s, width) ==
    IF Len(s) > 0 /\ s[1] \in {"-", "+"}
    THEN <<s[1]>> \o PadLeft(Tail(s), width - 1)
    ELSE PadLeft(s, width)

\* s.isdigit()
IsDigit(s) == Len(s) > 0 /\ \A n \in 1..Len(s) : \E k \in 1..10 : s[n] = DigitChars[k]

(***************************************************************************)
(* load_real_zip_codes.  A column value is what pd.read_csv parsed: an     *)
(* integer, a float with an integral value, a missing value or a string.   *)
(***************************************************************************)
IntCell(n) == [t |-> "int", n |-> n]
FloatCell(n) == [t |-> "float", n |-> n]
NaNCell == [t |-> "nan"]
TextCell(s) == [t |-> "text", s |-> s]

\* astype(str), one value
AsStr(v) ==
    CASE v.t = "int" -> IntStr(v.n)
      [] v.t = "float" -> IntStr(v.n) \o <<".", "0">>
      [] v.t = "nan" -> <<"n", "a", "n">>
      [] v.t = "text" -> v.s

\* .str.zfill(5), one value; pandas versions differ in whether a leading
\* sign is kept in front of the zeros
ZIP_WIDTH == 5
Zfill5(s, signAware) ==
    IF signAware THEN SignAwareZfill(s, ZIP_WIDTH) ELSE PadLeft(s, ZIP_WIDTH)

\* lines 81 / 85 without the length test
ValidZip_DigitsOnly(z) == IsDigit(z)

\* lines 81 / 85: len(z) == 5 and z.isdigit()
ValidZip(z) == Len(z) = ZIP_WIDTH /\ IsDigit(z)

\* lines 80-81 / 84-85: the padded column, filtered, rows in order
RECURSIVE PaddedValid(_, _)
PaddedValid(column, signAware) ==
    IF column = <<>> THEN <<>>
    ELSE LET z == Zfill5(AsStr(Head(column)), signAware)
             rest == PaddedValid(Tail(column), signAware)
         IN  IF ValidZip(z) THEN <<z>> \o rest ELSE rest

Range(q) == {q[n] : n \in 1..Len(q)}

\* the lists without repetition whose elements are those of S
Orderings(S) ==
    {q \in [1..Cardinality(S) -> S] : \A a, b \in 1..Cardinality(S) : q[a] = q[b] => a = b}

\* lines 74-95: the lists the call may return; list(set(...)) fixes no order
load_real_zip_codes(file, signAware) ==
    IF file.st = "missing" THEN {<<>>}                        \* lines 90-92
    ELSE IF file.st = "unreadable" THEN {<<>>}                \* lines 93-95
    ELSE IF "zip" \in DOMAIN file.columns
         THEN Orderings(Range(PaddedValid(file.columns["zip"], signAware)))
    ELSE IF "ZIP" \in DOMAIN file.columns
         THEN Orderings(Range(PaddedValid(file.columns["ZIP"], signAware)))
    ELSE {<<>>}                                               \* lines 87-89

\* values of the reference file's column
Chars(str) ==
    CASE str = "abc12" -> <<"a", "b", "c", "1", "2">>
      [] str = "1234" -> <<"1", "2", "3", "4">>
      [] str = "90210" -> <<"9", "0", "2", "1", "0">>
      [] str = "00501" -> <<"0", "0", "5", "0", "1">>
      [] str = "123456" -> <<"1", "2", "3", "4", "5", "6">>
      [] str = "-123" -> <<"-", "1", "2", "3">>
      [] str = "" -> <<>>

IntCells == {IntCell(n) : n \in {0, 1234, 90210, 123456, -123}}
FloatCells == {FloatCell(1234), FloatCell(90210), NaNCell}
TextCells == {TextCell(Chars(str)) : str \in {"abc12", "1234", "90210", "00501", "123456", "-123", ""}}
                \cup {NaNCell}

\* a column has one dtype: int64, float64 or object
Columns ==
    UNION {[1..n -> cells] : n \in 0..MaxRows, cells \in {IntCells, FloatCells, TextCells}}

OtherColumn == <<IntCell(10001)>>

ZipFiles ==
    { [st |-> "missing", columns |-> EmptyFn],
      [st |-> "unreadable", columns |-> EmptyFn] }
      \cup {[st |-> "ok", columns |-> [zip |-> c]] : c \in Columns}
      \cup {[st |-> "ok", columns |-> [ZIP |-> c]] : c \in Columns}
      \cup {[st |-> "ok", columns |-> [zip |-> c, ZIP |-> OtherColumn]] : c \in Columns}
      \cup {[st |-> "ok", columns |-> [city |-> c]] : c \in Columns}

(***************************************************************************)
(* SpecZip: one call of load_real_zip_codes.                               *)
(***************************************************************************)
InitZip == pc = "zip_start" /\ IdleAgg /\ IdleB /\ IdleZip /\ IdleA

CallZipLoader ==
    /\ pc = "zip_start"
    /\ \E file \in ZipFiles, signAware \in BOOLEAN :
          /\ zip_file' = file
          /\ zip_result' \in load_real_zip_codes(file, signAware)
    /\ pc' = "zip_done"
    /\ UNCHANGED <<varsAgg, varsB, varsA>>

NextZip == CallZipLoader

SpecZip == InitZip /\ [][NextZip]_vars

(***************************************************************************)
(* Pipeline A: configuration.  Probabilities are in thousandths, money in  *)
(* hundredths of a cent, normal samples in tenths of a day, dates in days  *)
(* since START_DATE.                                                       *)
(***************************************************************************)
START_YEAR == 2024
DATE_SPAN_DAYS == 365                    \* (END_DATE - START_DATE).days
PRIME_MEMBER_RATIO == 700
PRIME_DELAY_PROBABILITY == 50
STANDARD_DELAY_PROBABILITY == 200
AVERAGE_DELAY_DAYS == 2
BASE_AMZL_COST_PER_PACKAGE == 50000
BASE_3PC_COST_PER_PACKAGE == 40000
PRIME_EXPEDITED_COST_PREMIUM == 12       \* tenths
JITTER_LOW == 900                        \* thousandths
JITTER_HIGH == 1100
Carriers == {"AMZL", "UPS", "USPS", "FedEx"}

\* the values the random draws of one iteration are taken from
OrderDayDraws == {0, DATE_SPAN_DAYS}
MemberDraws == {699, 700}
DelayDraws == {49, 50, 199, 200}
PrimeSamples == {-5, 15, 25}
StandardSamples == {-20, 45, 60}
JitterDraws == {JITTER_LOW, 1037, JITTER_HIGH}
CustomerDraws == {10000}
ProductDraws == {999}
QuantityDraws == {1}
FakePostcodes == {<<"9", "6", "8", "1", "8">>}

Max(a, b) == IF a >= b THEN a ELSE b

\* round(x) of a value given in tenths: to the nearest integer, a half to
\* the even one
RoundHalfEven(tenths) ==
    LET q == tenths \div 10
        r == tenths % 10
    IN  IF r < 5 THEN q
        ELSE IF r > 5 THEN q + 1
        ELSE IF q % 2 = 0 THEN q ELSE q + 1

\* lines 66-71 without max(1, ...)
get_delivery_time_NoFloor(is_prime, sample) == RoundHalfEven(sample)

\* lines 66-71; sample is the np.random.normal draw
get_delivery_time(is_prime, sample) == Max(1, RoundHalfEven(sample))

\* lines 123-124
DelayTriggered(is_prime_member, u) ==
    \/ is_prime_member /\ u < PRIME_DELAY_PROBABILITY
    \/ ~is_prime_member /\ u < STANDARD_DELAY_PROBABILITY

\* lines 128-133 with the two outer branches exchanged
DeliveryStatus_Swapped(actual_delivery_date, expected_delivery_date) ==
    IF actual_delivery_date < expected_delivery_date THEN "Late"
    ELSE IF actual_delivery_date = expected_delivery_date THEN "On-Time"
    ELSE "Early"

\* lines 128-133
DeliveryStatus(actual_delivery_date, expected_delivery_date) ==
    IF actual_delivery_date < expected_delivery_date THEN "Early"
    ELSE IF actual_delivery_date = expected_delivery_date THEN "On-Time"
    ELSE "Late"

\* line 139 with the two costs exchanged
BaseCost_Swapped(carrier) ==
    IF carrier = "AMZL" THEN BASE_3PC_COST_PER_PACKAGE ELSE BASE_AMZL_COST_PER_PACKAGE

\* line 139
BaseCost(carrier) ==
    IF carrier = "AMZL" THEN BASE_AMZL_COST_PER_PACKAGE ELSE BASE_3PC_COST_PER_PACKAGE

\* lines 140-142
WithPremium(base_cost, is_prime_member) ==
    IF is_prime_member THEN (base_cost * PRIME_EXPEDITED_COST_PREMIUM) \div 10
    ELSE base_cost

\* line 143, the product inside round()
Jittered(cost, jitter) == (cost * jitter) \div 1000

\* line 143, round(x, 2): to cents, a half to the even cent
RoundCents(cost) ==
    LET q == cost \div 100
        r == cost % 100
    IN  IF r < 50 THEN q
        ELSE IF r > 50 THEN q + 1
        ELSE IF q % 2 = 0 THEN q ELSE q + 1

\* calendar of datetime
IsLeap(y) == (y % 4 = 0 /\ y % 100 # 0) \/ y % 400 = 0
DaysInMonth(y, m) ==
    IF m = 2 THEN (IF IsLeap(y) THEN 29 ELSE 28)
    ELSE IF m \in {4, 6, 9, 11} THEN 30 ELSE 31

RECURSIVE DateFrom(_, _, _)
DateFrom(y, m, d) ==
    IF d < DaysInMonth(y, m) THEN [y |-> y, m |-> m, d |-> d + 1]
    ELSE IF m = 12 THEN DateFrom(y + 1, 1, d - DaysInMonth(y, m))
    ELSE DateFrom(y, m + 1, d - DaysInMonth(y, m))

\* strftime('%Y-%m-%d') of START_DATE + timedelta(days)
Strftime(days) ==
    LET c == DateFrom(START_YEAR, 1, days)
    IN  PadLeft(Decimal(c.y), 4) \o <<"-">> \o PadLeft(Decimal(c.m), 2)
          \o <<"-">> \o PadLeft(Decimal(c.d), 2)

\* f"{prefix}-{n:0{width}d}"
Tagged(prefix, n, width) == prefix \o <<"-">> \o PadLeft(Decimal(n), width)

(***************************************************************************)
(* SpecA: the order generation script.                                     *)
(***************************************************************************)
ZipFilesA ==
    { [st |-> "missing", columns |-> EmptyFn],
      [st |-> "ok", columns |-> [zip |-> <<IntCell(501), TextCell(Chars("abc12"))>>]] }

InitA ==
    /\ pc = "a_start"
    /\ zip_file \in ZipFilesA
    /\ zip_result = <<>>
    /\ IdleA /\ IdleAgg /\ IdleB

\* lines 98-109
LoadZipCodes ==
    /\ pc = "a_start"
    /\ \E signAware \in BOOLEAN :
          REAL_ZIP_CODES' \in load_real_zip_codes(zip_file, signAware)
    /\ use_faker_postcode' = (REAL_ZIP_CODES' = <<>>)
    /\ orders_data' = <<>>
    /\ i' = 0
    /\ pc' = "a_loop"
    /\ UNCHANGED <<last, varsAgg, varsB, varsZip>>

\* lines 111-169, one iteration
GenerateOrder ==
    /\ pc = "a_loop"
    /\ i < MaxOrders
    /\ \E customer \in CustomerDraws, day \in OrderDayDraws, u1 \in MemberDraws,
          u2 \in DelayDraws, extra \in 1..AVERAGE_DELAY_DAYS, carrier \in Carriers,
          jitter \in JitterDraws, product \in ProductDraws, quantity \in QuantityDraws,
          fake \in FakePostcodes :
        \E sample \in (IF u1 < PRIME_MEMBER_RATIO THEN PrimeSamples ELSE StandardSamples),
           pick \in (IF REAL_ZIP_CODES = <<>> THEN {0} ELSE 1..Len(REAL_ZIP_CODES)) :
          LET order_date == day
              is_prime_member == u1 < PRIME_MEMBER_RATIO
              delivery_days == get_delivery_time(is_prime_member, sample)
              expected_delivery_date == order_date + delivery_days
              delay_triggered == DelayTriggered(is_prime_member, u2)
              actual_delivery_date ==
                  IF delay_triggered THEN expected_delivery_date + extra
                  ELSE expected_delivery_date
              delivery_status == DeliveryStatus(actual_delivery_date, expected_delivery_date)
              base_cost == BaseCost(carrier)
              before_rounding == Jittered(WithPremium(base_cost, is_prime_member), jitter)
              destination_zip_code ==
                  IF ~use_faker_postcode
                  THEN (IF REAL_ZIP_CODES # <<>> THEN REAL_ZIP_CODES[pick] ELSE fake)
                  ELSE fake
          IN  /\ last' = [order_date |-> order_date,
                          is_prime_member |-> is_prime_member,
                          delivery_days |-> delivery_days,
                          expected_delivery_date |-> expected_delivery_date,
                          actual_delivery_date |-> actual_delivery_date,
                          delay_triggered |-> delay_triggered,
                          delay_days |-> IF delay_triggered THEN extra ELSE 0,
                          carrier |-> carrier,
                          jitter |-> jitter,
                          before_rounding |-> before_rounding]
              /\ orders_data' = Append(orders_data,
                     [order_id |-> Tagged(<<"O", "R", "D">>, i, 7),
                      customer_id |-> Tagged(<<"C", "U", "S", "T">>, customer, 5),
                      order_date |-> Strftime(order_date),
                      is_prime_member |-> is_prime_member,
                      expected_delivery_date |-> Strftime(expected_delivery_date),
                      actual_delivery_date |-> Strftime(actual_delivery_date),
                      delivery_status |-> delivery_status,
                      carrier |-> carrier,
                      delivery_cost_to_amazon |-> RoundCents(before_rounding),
                      product_id |-> Tagged(<<"P", "R", "O", "D">>, product, 3),
                      order_quantity |-> quantity,
                      destination_zip_code |-> destination_zip_code])
    /\ i' = i + 1
    /\ UNCHANGED <<pc, REAL_ZIP_CODES, use_faker_postcode, varsAgg, varsB, varsZip>>

\* lines 171-194
SaveOrders ==
    /\ pc = "a_loop"
    /\ i = MaxOrders
    /\ csv' = orders_data
    /\ csv_writes' = csv_writes + 1
    /\ pc' = "a_done"
    /\ UNCHANGED <<disk, docs, all_route_ids_to_process, todo, handed,
                   all_processed_routes, processed_count>>
    /\ UNCHANGED <<varsAgg, varsZip, varsA>>

NextA ==
    \/ LoadZipCodes
    \/ GenerateOrder
    \/ SaveOrders

SpecA == InitA /\ [][NextA]_vars

(***************************************************************************)
(* C6, C7, C9: the rows of Pipeline A                                      *)
(***************************************************************************)
\* the row the latest iteration appended
LastRow == orders_data[Len(orders_data)]

\* dates written as YYYY-MM-DD compare as their characters do
RECURSIVE TextLeq(_, _)
TextLeq(a, b) ==
    IF a = <<>> THEN TRUE
    ELSE IF b = <<>> THEN FALSE
    ELSE LET ra == CHOOSE k \in 1..10 : DigitChars[k] = Head(a)
             rb == CHOOSE k \in 1..10 : DigitChars[k] = Head(b)
         IN  IF Head(a) = "-" \/ Head(a) = Head(b) THEN TextLeq(Tail(a), Tail(b))
             ELSE ra < rb

\* C6: in every generated row the base delivery duration is an integer of
\* at least one day, the expected date is the order date plus it, and the
\* actual date is the expected date without a delay and 1 to
\* AVERAGE_DELAY_DAYS days later with one, so never earlier.
C6_DeliveryDates ==
    i > 0 =>
        /\ last.delivery_days \in Nat
        /\ last.delivery_days >= 1
        /\ last.expected_delivery_date = last.order_date + last.delivery_days
        /\ last.actual_delivery_date >= last.expected_delivery_date
        /\ ~last.delay_triggered =>
              last.actual_delivery_date = last.expected_delivery_date
        /\ last.delay_triggered =>
              (last.actual_delivery_date - last.expected_delivery_date)
                  \in 1..AVERAGE_DELAY_DAYS
        /\ TextLeq(LastRow.order_date, LastRow.expected_delivery_date)
        /\ LastRow.order_date # LastRow.expected_delivery_date
        /\ TextLeq(LastRow.expected_delivery_date, LastRow.actual_delivery_date)

C6_Witness ==
    /\ i > 0
    /\ last.delay_triggered
    /\ last.delivery_days = 1
    /\ last.actual_delivery_date = last.expected_delivery_date + 2
    /\ LastRow.order_date = <<"2", "0", "2", "4", "-", "1", "2", "-", "3", "1">>
    /\ LastRow.actual_delivery_date = <<"2", "0", "2", "5", "-", "0", "1", "-", "0", "3">>

\* C7: the status compares the actual with the expected date (Early,
\* On-Time, Late for earlier, equal, later); it is Late exactly in the rows
\* with a delay, On-Time in the others, and Early in none.
C7_StatusFollowsDelay ==
    /\ \A a, e \in 0..2 :
          DeliveryStatus(a, e) = (CASE a < e -> "Early" [] a = e -> "On-Time" [] a > e -> "Late")
    /\ i > 0 =>
          /\ LastRow.delivery_status # "Early"
          /\ LastRow.delivery_status = "Late" <=> last.delay_triggered
          /\ LastRow.delivery_status = "On-Time" <=> ~last.delay_triggered
          /\ LastRow.delivery_status = "Late" <=>
                LastRow.actual_delivery_date # LastRow.expected_delivery_date
    /\ \A n \in 1..Len(orders_data) : orders_data[n].delivery_status \in {"On-Time", "Late"}

C7_Witness ==
    /\ i > 0
    /\ last.delay_triggered
    /\ LastRow.delivery_status = "Late"
    /\ LastRow.expected_delivery_date # LastRow.actual_delivery_date

\* C9: the cost before rounding is base x premium x jitter, base 5.00 for
\* AMZL and 4.00 for any other carrier, premium 1.2 for a prime member and
\* 1 otherwise, jitter in [0.9, 1.1]; so it lies in [5.40, 6.60],
\* [4.50, 5.50], [4.32, 5.28] or [3.60, 4.40].
C9_CostBeforeRounding ==
    i > 0 =>
        LET amzl == last.carrier = "AMZL"
            prime == last.is_prime_member
            base == IF amzl THEN 500 ELSE 400             \* cents
            premium == IF prime THEN 12 ELSE 10           \* tenths
            cost == last.before_rounding                  \* hundredths of a cent
        IN  /\ last.jitter >= 900 /\ last.jitter <= 1100
            /\ cost * 100 = base * premium * last.jitter
            /\ (amzl /\ prime) => (54000 <= cost /\ cost <= 66000)
            /\ (amzl /\ ~prime) => (45000 <= cost /\ cost <= 55000)
            /\ (~amzl /\ prime) => (43200 <= cost /\ cost <= 52800)
            /\ (~amzl /\ ~prime) => (36000 <= cost /\ cost <= 44000)

C9_Witness ==
    /\ i > 0
    /\ last.carrier = "AMZL"
    /\ last.is_prime_member
    /\ last.jitter = 1100
    /\ last.before_rounding = 66000
    /\ LastRow.delivery_cost_to_amazon = 660

(***************************************************************************)
(* C8: the ZIP code loader                                                 *)
(***************************************************************************)
\* z is s left-padded with zeros to 5 characters
C8_IsPaddedFormOf(z, s) ==
    IF Len(s) >= 5 THEN z = s
    ELSE /\ Len(z) = 5
         /\ \A n \in 1..(5 - Len(s)) : z[n] = "0"
         /\ \A n \in 1..Len(s) : z[5 - Len(s) + n] = s[n]

C8_FiveDigits(z) ==
    /\ Len(z) = 5
    /\ \A n \in 1..5 : z[n] \in {"0", "1", "2", "3", "4", "5", "6", "7", "8", "9"}

\* the column the loader reads: "zip", or else "ZIP"
C8_Column ==
    IF "zip" \in DOMAIN zip_file.columns THEN zip_file.columns.zip
    ELSE zip_file.columns.ZIP

C8_Example ==
    <<TextCell(Chars("1234")), TextCell(Chars("90210")), TextCell(Chars("abc12"))>>

\* C8: for a readable file with a "zip" (or else "ZIP") column the returned
\* list has no duplicates and holds exactly the five-digit strings that are
\* the zero-padded form of some value of the column, whatever the order of
\* the rows; 1234, 90210 and abc12 yield exactly "01234" and "90210".
C8_ZipCodesArePaddedFiveDigits ==
    (pc = "zip_done" /\ zip_file.st = "ok"
       /\ DOMAIN zip_file.columns \cap {"zip", "ZIP"} # {}) =>
        /\ \A a, b \in 1..Len(zip_result) : zip_result[a] = zip_result[b] => a = b
        /\ \A n \in 1..Len(zip_result) :
              /\ C8_FiveDigits(zip_result[n])
              /\ \E k \in 1..Len(C8_Column) :
                    C8_IsPaddedFormOf(zip_result[n], AsStr(C8_Column[k]))
        /\ \A k \in 1..Len(C8_Column) :
              LET s == AsStr(C8_Column[k])
                  z == IF Len(s) >= 5 THEN s
                       ELSE [n \in 1..5 |-> IF n <= 5 - Len(s) THEN "0"
                                            ELSE s[n - (5 - Len(s))]]
              IN  C8_FiveDigits(z) => \E n \in 1..Len(zip_result) : zip_result[n] = z
        /\ C8_Column = C8_Example =>
              Range(zip_result) = {<<"0", "1", "2", "3", "4">>, Chars("90210")}

C8_Witness ==
    /\ pc = "zip_done"
    /\ zip_file.st = "ok"
    /\ "zip" \in DOMAIN zip_file.columns
    /\ zip_file.columns.zip = C8_Example
    /\ zip_result = <<Chars("90210"), <<"0", "1", "2", "3", "4">>>>

(***************************************************************************)
(* What the documents on disk say, read off `disk` itself.                 *)
(***************************************************************************)
LocOrder == <<"build", "apply", "eval">>

\* the record of route id r in the document of that kind and location, None
\* when the document has none
OnDisk(kind, loc, r) ==
    LET f == disk[<<kind, loc>>]
    IN  IF f.st = "ok" /\ f.content.t = "dict" /\ r \in DOMAIN f.content.d
        THEN f.content.d[r] ELSE None

NonEmptyRecord(v) == v.t = "dict" /\ DOMAIN v.d # {}

\* position in LocOrder of the first location with a non-empty record, or 0
FirstLoc(kind, r) ==
    IF NonEmptyRecord(OnDisk(kind, "build", r)) THEN 1
    ELSE IF NonEmptyRecord(OnDisk(kind, "apply", r)) THEN 2
    ELSE IF NonEmptyRecord(OnDisk(kind, "eval", r)) THEN 3
    ELSE 0

\* route ids found in the three route-details documents
IdsOnDisk ==
    {r \in RouteIds : \E loc \in Locs :
        LET f == disk[<<"route", loc>>]
        IN  f.st = "ok" /\ f.content.t = "dict" /\ r \in DOMAIN f.content.d}

HasRouteAndPackage(r) == FirstLoc("route", r) # 0 /\ FirstLoc("package", r) # 0

Aggregated(r) ==
    \E n \in 1..Len(all_processed_routes) : all_processed_routes[n].route_id = r

InCsv(r) == \E n \in 1..Len(csv) : csv[n].route_id = r

(***************************************************************************)
(* C1, C2, C5, C10: Pipeline B                                             *)
(***************************************************************************)
\* C1: a route id of the route-details documents gets an aggregate, and a
\* row of the output table, exactly when some location has a non-empty
\* route-details record and some location a non-empty package-details
\* record for it; sequence-details play no part.
C1_EmittedIffRouteAndPackage ==
    \A r \in IdsOnDisk :
        /\ r \in DOMAIN handed => (Aggregated(r) <=> HasRouteAndPackage(r))
        /\ pc = "done" => (InCsv(r) <=> HasRouteAndPackage(r))
        /\ pc = "exited" => (~InCsv(r) /\ ~HasRouteAndPackage(r))

C1_Witness ==
    /\ pc = "done"
    /\ \E r \in IdsOnDisk : InCsv(r) /\ FirstLoc("sequence", r) = 0
    /\ \E r \in IdsOnDisk : ~InCsv(r) /\ FirstLoc("package", r) = 0

\* C2: for each record kind, what an iteration hands on is the record of the
\* first location, in the order build, apply, eval, whose record for the
\* route id is non-empty, and a location is looked into only when every
\* earlier one has no record or an empty one.
C2_FirstNonEmptyWins ==
    \A r \in DOMAIN handed : \A kind \in Kinds :
        LET h == handed[r][kind]
            n == FirstLoc(kind, r)
        IN  /\ n # 0 => /\ h.value = OnDisk(kind, LocOrder[n], r)
                         /\ h.consulted = {LocOrder[m] : m \in 1..n}
            /\ n = 0 => (~NonEmptyRecord(h.value) /\ h.consulted = Locs)
            /\ (handed[r].called /\ kind = "route") =>
                  \E k \in 1..Len(all_processed_routes) :
                      /\ all_processed_routes[k].route_id = r
                      /\ all_processed_routes[k].station_code = Str(LocOrder[n])

C2_Witness ==
    \E r \in DOMAIN handed :
        /\ handed[r].called
        /\ OnDisk("route", "build", r) = EmptyDict
        /\ FirstLoc("route", r) = 3
        /\ OnDisk("package", "build", r) = None
        /\ FirstLoc("package", r) = 2

\* an empty parsed content: null, an empty array, an empty object
EmptyContent(v) ==
    \/ v.t = "null"
    \/ v.t = "list" /\ Len(v.l) = 0
    \/ v.t = "dict" /\ DOMAIN v.d = {}

\* C5: load_json_file never raises; a missing, malformed, unreadable or
\* empty document loads as an empty mapping and any other as its parsed
\* content, so that the run goes on past the loading stage.
C5_LoadNeverRaises ==
    /\ pc # "crashed"
    /\ pc # "start" =>
          \A f \in Files :
              IF disk[f].st = "ok" /\ ~EmptyContent(disk[f].content)
              THEN docs[f] = disk[f].content
              ELSE docs[f].t = "dict" /\ DOMAIN docs[f].d = {}

C5_Witness ==
    /\ pc = "done"
    /\ \E f \in Files : disk[f].st = "malformed" /\ docs[f] = EmptyDict
    /\ \E f \in Files : disk[f].st = "ok" /\ docs[f] = disk[f].content

C10_Safe ==
    /\ csv_writes <= 1
    /\ csv_writes = 1 <=> pc = "done"
    /\ pc # "done" => csv = <<>>
    /\ pc = "done" =>
          /\ todo = {}
          /\ DOMAIN handed = IdsOnDisk
          /\ Len(csv) >= 1
          /\ Len(csv) = Cardinality({r \in IdsOnDisk : HasRouteAndPackage(r)})
          /\ \A r \in IdsOnDisk : HasRouteAndPackage(r) => InCsv(r)
    /\ pc = "exited" =>
          (IdsOnDisk = {} \/ \A r \in IdsOnDisk : ~HasRouteAndPackage(r))

\* the run is over
Finished == pc \in {"done", "exited"}

\* the number of steps a run has left at most
StepsLeft ==
    CASE pc = "start" -> 4 + Cardinality(RouteIds)
      [] pc = "collect" -> 3 + Cardinality(RouteIds)
      [] pc = "loop" -> 2 + Cardinality(todo)
      [] pc = "output" -> 1
      [] OTHER -> 0

\* C10: every run ends: a run that is not over can take a step, which the
\* script's one thread then takes, and every step leaves fewer steps to
\* take.  It ends without an output table when no route id is found or none
\* has both non-empty route-details and package-details, and otherwise with
\* the table written once, after the loop, one row per aggregate.
C10_TerminatesAndWritesOnce ==
    /\ [](C10_Safe /\ (Finished \/ ENABLED NextB))
    /\ [][StepsLeft' < StepsLeft]_vars

C10_Witness ==
    /\ pc = "done"
    /\ csv_writes = 1
    /\ Len(csv) = 2
    /\ \A r \in RouteIds : InCsv(r)

(***************************************************************************)
(* C3, C4: the metrics process_single_route_data returns.                  *)
(***************************************************************************)
\* seconds of the stops named StopNames[1..n] that are mappings
RECURSIVE C3_Seconds(_, _)
C3_Seconds(stops, n) ==
    IF n = 0 THEN 0
    ELSE LET id == StopNames[n]
             e == IF id \in DOMAIN stops THEN stops[id] ELSE None
             travel == IF e.t = "dict" /\ "travel_time_to_next_stop_in_seconds" \in DOMAIN e.d
                       THEN e.d.travel_time_to_next_stop_in_seconds.n ELSE 0
             service == IF e.t = "dict" /\ "planned_service_time_seconds" \in DOMAIN e.d
                        THEN e.d.planned_service_time_seconds.n ELSE 0
         IN  travel + service + C3_Seconds(stops, n - 1)

C3_Example ==
    Dict([s1 |-> Dict([travel_time_to_next_stop_in_seconds |-> Num(3600),
                       planned_service_time_seconds |-> Num(1800)])])

\* C3: the returned duration is the stops' travel plus service seconds over
\* 3600, zero instead of a negative total, and zero when "stops" is absent,
\* empty or no mapping; it is never negative; one stop of 3600 s and 1800 s
\* gives 1.5 hours.
C3_DurationIsStopHours ==
    pc = "agg_done" =>
        LET rd == agg_in.route_details
            h == agg_out.actual_route_duration_hours
            usable == /\ rd.t = "dict"
                      /\ "stops" \in DOMAIN rd.d
                      /\ rd.d.stops.t = "dict"
                      /\ DOMAIN rd.d.stops.d # {}
            secs == IF usable THEN C3_Seconds(rd.d.stops.d, Len(StopNames)) ELSE 0
        IN  /\ h.den > 0
            /\ h.num >= 0
            /\ IF secs < 0 THEN h.num = 0 ELSE h.num * 3600 = secs * h.den
            /\ (~usable) => h.num = 0
            /\ (usable /\ rd.d.stops = C3_Example) => (h.num = 3 /\ h.den = 2)

C3_Witness ==
    /\ pc = "agg_done"
    /\ agg_in.route_details.t = "dict"
    /\ "stops" \in DOMAIN agg_in.route_details.d
    /\ agg_in.route_details.d.stops = C3_Example
    /\ agg_out.actual_route_duration_hours = [num |-> 3, den |-> 2]

\* depth x height x width of one package, an absent dimension counting as 0,
\* and 0 for a package without a dimensions mapping
C4_Volume(pkg) ==
    IF pkg.t = "dict" /\ "dimensions" \in DOMAIN pkg.d /\ pkg.d.dimensions.t = "dict"
    THEN LET dm == pkg.d.dimensions.d
             side(k) == IF k \in DOMAIN dm THEN dm[k].n ELSE 0
         IN  side("depth_cm") * side("height_cm") * side("width_cm")
    ELSE 0

RECURSIVE C4_Total(_, _)
C4_Total(sub, ids) ==
    IF ids = {} THEN 0
    ELSE LET p == CHOOSE q \in ids : TRUE
         IN  C4_Volume(sub[p]) + C4_Total(sub, ids \ {p})

C4_Example == Dict([p1 |-> Dict([dimensions |-> Dims(2, 3, 4)]),
                    p2 |-> Dict([dimensions |-> Dims(1, 1, 1)])])

\* C4: for a non-empty package-details record the delivery count is the
\* number of entries of the sub-mapping under "AD", or else under "packages",
\* and the volume is the sum of depth x height x width over the packages
\* with a dimensions mapping; dimensions (2,3,4) and (1,1,1) give 25 and 2.
C4_PackageMetrics ==
    (pc = "agg_done" /\ agg_in.package_details.t = "dict"
       /\ DOMAIN agg_in.package_details.d # {}) =>
        LET pd == agg_in.package_details.d
            underAD == "AD" \in DOMAIN pd /\ pd.AD.t = "dict" /\ DOMAIN pd.AD.d # {}
            underPackages == "packages" \in DOMAIN pd /\ pd.packages.t = "dict"
            sub == IF underAD THEN pd.AD.d
                   ELSE IF underPackages THEN pd.packages.d
                   ELSE EmptyFn
        IN  /\ agg_out.num_deliveries = Cardinality(DOMAIN sub)
            /\ agg_out.total_calculated_volume_cm3 = C4_Total(sub, DOMAIN sub)
            /\ (Dict(sub) = C4_Example) =>
                   /\ agg_out.num_deliveries = 2
                   /\ agg_out.total_calculated_volume_cm3 = 25

C4_Witness ==
    /\ pc = "agg_done"
    /\ agg_in.package_details = Dict([packages |-> C4_Example])
    /\ agg_out.num_deliveries = 2
    /\ agg_out.total_calculated_volume_cm3 = 25

(***************************************************************************)
(* C11: Pipeline B is a function of its input documents                    *)
(***************************************************************************)
\* the route ids of the documents that have both core records
C11_Eligible == {r \in IdsOnDisk : HasRouteAndPackage(r)}

\* the aggregate of route id r as the documents alone determine it: the
\* aggregator applied to the first non-empty records of r
C11_AggregateOf(r) ==
    process_single_route_data(r,
        OnDisk("route", LocOrder[FirstLoc("route", r)], r),
        OnDisk("package", LocOrder[FirstLoc("package", r)], r),
        None)

C11_RowOf(r) == [C11_AggregateOf(r) EXCEPT !.route_date = ToDatetime(@)]

C11_Determined ==
    /\ \A n \in 1..Len(all_processed_routes) :
          LET r == all_processed_routes[n].route_id
          IN  /\ r \in C11_Eligible
              /\ all_processed_routes[n] = C11_AggregateOf(r)
              /\ \A m \in 1..Len(all_processed_routes) :
                    all_processed_routes[m].route_id = r => m = n
    /\ pc \in {"output", "done", "exited"} /\ all_route_ids_to_process # {} =>
          Len(all_processed_routes) = Cardinality(C11_Eligible)
    /\ pc = "done" =>
          /\ Len(csv) = Cardinality(C11_Eligible)
          /\ \A r \in C11_Eligible :
                \E n \in 1..Len(csv) : csv[n] = C11_RowOf(r)

\* C11: whatever order the set of route ids is iterated in, a run over given
\* documents produces one aggregate per route id that has both core records,
\* each equal to what the documents alone determine for that id, so two runs
\* over the same documents agree in the number of rows and in every route's
\* record; an iteration leaves the aggregates made before it as they are.
C11_DeterministicUpToRowOrder ==
    /\ []C11_Determined
    /\ [][\A n \in 1..Len(all_processed_routes) :
            /\ n <= Len(all_processed_routes')
            /\ all_processed_routes'[n] = all_processed_routes[n]]_vars

\* a finished run of two rows whose second route id was iterated first and
\* whose two aggregates differ in more than the id
C11_Witness ==
    /\ pc = "done"
    /\ Len(csv) = 2
    /\ csv[1].route_id = "r2" /\ csv[2].route_id = "r1"
    /\ [csv[1] EXCEPT !.route_id = "r1"] # csv[2]

====
